---------------------------- MODULE Spec2Model ----------------------------
(***************************************************************************)
(* Model of zappr's approval check (src/server/checks/Approval.js):        *)
(* the approval counter countApprovals and the event handler execute,      *)
(* together with the collaborators execute calls: the status reporter      *)
(* (github.setCommitStatus), the comment source (github.getComments,       *)
(* github.getPullRequest), the membership oracle (github.isCollaborator,   *)
(* github.isMemberOfOrg) and the PR record store (pullRequestHandler).     *)
(*                                                                         *)
(* Every await of execute is one step of a handler; a collaborator call    *)
(* and its answer happen in that step, and the call may fail.  The         *)
(* Promise.all fan-out of countApprovals is modelled per author: a call    *)
(* is issued in one step and answered in a later one.                      *)
(***************************************************************************)
EXTENDS Integers, Sequences, FiniteSets, TLC

(***************************************************************************)
(* Bounds of the model.                                                    *)
(***************************************************************************)
MaxMinimum == 2      \* config.approvals.minimum ranges over 0..MaxMinimum
MaxComments == 2     \* comments posted on the pull request
MaxFaults == 2       \* failing collaborator calls while one event is handled
NumHandlers == 2     \* handlers of execute that can be in flight at once
MaxActual == 5       \* generateStatusMessage: actual ranges over 0..MaxActual
MaxNeeded == 5       \* generateStatusMessage: needed ranges over 0..MaxNeeded
MaxPush == 1         \* commits pushed to the pull request after it was opened

(***************************************************************************)
(* The universe: users, organisations, issue numbers, comment bodies.      *)
(***************************************************************************)
Opener == "alice"
Users == {"alice", "bob", "carol"}
Orgs == {"acme", "zal"}
PRNumber == "#1"     \* the issue number of the pull request the events are about
IssueNumber == "#2"  \* an issue number that is no pull request
ClosedNumber == "#3" \* the issue number of a pull request that is closed
Numbers == {PRNumber, IssueNumber, ClosedNumber}
Handlers == 1..NumHandlers

\* Comment bodies, as sequences of characters.
BodyPadded == <<" ", "+", "1", " ">>
BodyLoud == <<"+", "1", "!">>
Bodies == {BodyPadded, BodyLoud}

\* Patterns, as what new RegExp(pattern) compiles them to: "^\\+1$", "\\+1",
\* and "+1", which new RegExp rejects with a SyntaxError (nothing to repeat).
PatternExact == [ok |-> TRUE, atStart |-> TRUE, atEnd |-> TRUE, lit |-> <<"+", "1">>]
PatternAnywhere == [ok |-> TRUE, atStart |-> FALSE, atEnd |-> FALSE, lit |-> <<"+", "1">>]
PatternMalformed == [ok |-> FALSE, atStart |-> FALSE, atEnd |-> FALSE, lit |-> <<>>]
Patterns == {PatternExact, PatternAnywhere, PatternMalformed}

\* config.approvals.from: unset, or {users, collaborators, orgs}; an absent
\* users or orgs is the empty list.
NoFrom == [set |-> FALSE, users |-> {}, collaborators |-> FALSE, orgs |-> <<>>]
Froms ==
  {NoFrom} \cup
  [set : {TRUE}, users : SUBSET {"bob"}, collaborators : BOOLEAN,
   orgs : {<<>>, <<"acme", "zal">>}]

NoRecord == [exists |-> FALSE, last_push |-> 0]
NoPR ==
  [exists |-> FALSE, state |-> "none", head |-> 0, user |-> "nobody",
   pushed_at |-> 0]
ClosedPR ==
  [exists |-> TRUE, state |-> "closed", head |-> 1, user |-> "bob",
   pushed_at |-> 0]
EmptySha == 0        \* let sha = ''

(***************************************************************************)
(* Pure helpers of Approval.js.                                            *)
(***************************************************************************)
\* Mutation: the comparison is actual <= needed.
generateStatusMessageInclusive(actual, needed) ==
  IF actual <= needed
  THEN <<"This PR needs ", needed - actual, " more approvals (", actual, "/",
         needed, " given).">>
  ELSE <<"This PR has ", actual, "/", needed, " approvals since the last commit.">>

\* generateStatusMessage(actual, needed): the template with its numbers.
generateStatusMessage(actual, needed) ==
  IF actual < needed
  THEN <<"This PR needs ", needed - actual, " more approvals (", actual, "/",
         needed, " given).">>
  ELSE <<"This PR has ", actual, "/", needed, " approvals since the last commit.">>

\* String.prototype.trim on a sequence of characters.
RECURSIVE TrimLeft(_)
TrimLeft(s) ==
  IF s # <<>> /\ Head(s) = " " THEN TrimLeft(Tail(s)) ELSE s

RECURSIVE TrimRight(_)
TrimRight(s) ==
  IF s # <<>> /\ s[Len(s)] = " " THEN TrimRight(SubSeq(s, 1, Len(s) - 1)) ELSE s

Trim(s) == TrimRight(TrimLeft(s))

\* (new RegExp(pattern)).test(text) for a pattern that compiles: an unanchored
\* search for the literal, restricted by ^ and $.
RegExpTest(pattern, text) ==
  \E i \in 1..(Len(text) - Len(pattern.lit) + 1) :
     /\ SubSeq(text, i, i + Len(pattern.lit) - 1) = pattern.lit
     /\ pattern.atStart => i = 1
     /\ pattern.atEnd => i + Len(pattern.lit) - 1 = Len(text)

\* cmts.findIndex(c2 => c1.user.login === c2.user.login)
FindIndexByLogin(cmts, login) ==
  CHOOSE i \in 1..Len(cmts) :
     /\ cmts[i].user = login
     /\ \A j \in 1..(i - 1) : cmts[j].user # login

\* Mutation: the first filter lets every comment through.
NotIgnoredKeepsAll(comments, ignore) == comments

\* The first filter of countApprovals: drop the ignored users.
NotIgnored(comments, ignore) ==
  SelectSeq(comments, LAMBDA c : c.user \notin ignore)

\* The second filter: keep the comments whose trimmed body matches.
Matching(comments, pattern) ==
  SelectSeq(comments, LAMBDA c : RegExpTest(pattern, Trim(c.body)))

\* Mutation: the third filter keeps every comment.
FirstPerAuthorKeepsAll(cmts) == cmts

\* The third filter: keep each author's first comment.
FirstPerAuthor(cmts) ==
  LET idx == {i \in 1..Len(cmts) : i = FindIndexByLogin(cmts, cmts[i].user)}
      RECURSIVE pick(_)
      pick(i) == IF i > Len(cmts) THEN <<>>
                 ELSE IF i \in idx THEN <<cmts[i]>> \o pick(i + 1)
                 ELSE pick(i + 1)
  IN pick(1)

\* new RegExp(pattern) throws when the second filter sees its first comment.
PatternThrows(comments, cfg) ==
  /\ ~cfg.pattern.ok
  /\ NotIgnored(comments, cfg.ignore) # <<>>

\* Mutation: the authors are deduplicated before the pattern filter.
FilteredDedupFirst(comments, cfg) ==
  Matching(FirstPerAuthor(NotIgnored(comments, cfg.ignore)), cfg.pattern)

\* let filtered = comments.filter(...).filter(...).filter(...)
Filtered(comments, cfg) ==
  FirstPerAuthor(Matching(NotIgnored(comments, cfg.ignore), cfg.pattern))

(***************************************************************************)
(* State.                                                                  *)
(***************************************************************************)
VARIABLES
  config,         \* the check's configuration: config.approvals
  collaborators,  \* the users github.isCollaborator confirms
  orgMembers,     \* per organisation, the users github.isMemberOfOrg confirms
  now,            \* the clock
  pull,           \* the pull request #1 as GitHub holds it: state, head, user,
                  \* and when its head commit was pushed
  posted,         \* the comments on #1 as GitHub holds them, oldest first
  db,             \* the PR record store: per issue number, a record or none
  ex              \* per handler, the locals and the position of one execute

vars == <<config, collaborators, orgMembers, now, pull, posted, db, ex>>

world == <<config, collaborators, orgMembers, now, pull, posted>>

\* const pendingPayload = {state: 'pending', description: ..., context}
pendingPayload ==
  [state |-> "pending", description |-> <<"Approval validation in progress.">>]

NoPayload ==
  [pull_request |-> FALSE, issue |-> FALSE, action |-> "none",
   number |-> PRNumber, state |-> "none", head |-> 0, user |-> "nobody"]

\* The locals of an execute that has not started.
Idle ==
  [pc |-> "idle", hookPayload |-> NoPayload, sha |-> EmptySha, dbPR |-> NoRecord,
   pr |-> NoPR, comments |-> <<>>, countConfig |-> [ignore |-> {}],
   tasks |-> [u \in Users |-> "none"], approvals |-> 0, e |-> <<>>,
   failures |-> <<>>, trace |-> <<>>, result |-> "none"]

\* const {minimum} = config.approvals
minimum == config.approvals.minimum

(***************************************************************************)
(* The collaborators, as section "External interfaces" of the              *)
(* specification describes them.                                           *)
(***************************************************************************)
\* pullRequestHandler.onGet(dbRepoId, number)
StoreGet(n) == db[n]

\* pullRequestHandler.onCreatePullRequest(dbRepoId, number): last_push = now
StoreCreate(n) == [db EXCEPT ![n] = [exists |-> TRUE, last_push |-> now]]

\* pullRequestHandler.onAddCommit(dbRepoId, number): last_push = now
StoreAddCommit(n) ==
  IF db[n].exists THEN [db EXCEPT ![n].last_push = now] ELSE db

\* github.getComments(user, repo, number, since): the comments created after
\* since, oldest first.
CommentsSince(n, since) ==
  IF n = PRNumber THEN SelectSeq(posted, LAMBDA c : c.created_at > since)
  ELSE <<>>

\* github.getPullRequest(user, repo, number)
LookupPullRequest(n) ==
  IF n = PRNumber THEN pull ELSE IF n = ClosedNumber THEN ClosedPR ELSE NoPR

(***************************************************************************)
(* Bookkeeping of one execute: the calls it issued, the errors raised.     *)
(***************************************************************************)
StatusCall(sha, status, ok) ==
  [call |-> "setCommitStatus", sha |-> sha, state |-> status.state,
   description |-> status.description, ok |-> ok]

Call(name, arg, ok) == [call |-> name, arg |-> arg, ok |-> ok]

GetCommentsCall(n, since, ok) ==
  [call |-> "getComments", number |-> n, since |-> since, ok |-> ok]

OracleCall(name, org, user) == [call |-> name, org |-> org, user |-> user]

Logged(x, entry) == [x EXCEPT !.trace = Append(@, entry)]

\* A rejected await inside the try block: control passes to the catch block
\* with e.message naming the failed call.
Thrown(x, name, arg) ==
  [x EXCEPT !.pc = "catch", !.e = <<name, arg>>,
            !.failures = Append(@, <<name, arg>>)]

Returned(x) == [x EXCEPT !.pc = "done", !.result = "returned"]

\* Whether the next collaborator call of handler h may fail.
Outcomes(h) == IF Len(ex[h].failures) < MaxFaults THEN BOOLEAN ELSE {TRUE}

Set(h, x) == ex' = [ex EXCEPT ![h] = x]

\* !!pull_request && pull_request.state === 'open'
OnOpenPullRequest(x) == x.hookPayload.pull_request /\ x.hookPayload.state = "open"

(***************************************************************************)
(* execute: the pull request was opened or reopened.                       *)
(***************************************************************************)
\* An event is handed to execute: the locals are fresh, sha = ''.
Deliver(h, p) ==
  /\ ex[h].pc = "idle"
  /\ Set(h, [Idle EXCEPT !.pc = "start", !.hookPayload = p])
  /\ UNCHANGED <<world, db>>

\* execute has completed: its locals are gone.
Complete(h) ==
  /\ ex[h].pc = "done"
  /\ Set(h, Idle)
  /\ UNCHANGED <<world, db>>

\* Neither branch applies, or the action is none of the three: nothing happens.
Ignore(h) ==
  LET x == ex[h] IN
  /\ x.pc = "start"
  /\ \/ /\ OnOpenPullRequest(x)
        /\ x.hookPayload.action \notin {"opened", "reopened", "synchronize"}
     \/ /\ ~OnOpenPullRequest(x)
        /\ ~x.hookPayload.issue
  /\ Set(h, Returned(x))
  /\ UNCHANGED <<world, db>>

\* Mutation: the placeholder is not reported.
SetPendingOpenedSilently(h) ==
  LET x == ex[h] IN
  /\ x.pc = "start"
  /\ OnOpenPullRequest(x)
  /\ x.hookPayload.action \in {"opened", "reopened"}
  /\ Set(h, [x EXCEPT !.sha = x.hookPayload.head, !.pc = "opened_get"])
  /\ UNCHANGED <<world, db>>

\* sha = pull_request.head.sha; await github.setCommitStatus(.., pendingPayload)
SetPendingOpened(h) ==
  LET x == ex[h] IN
  /\ x.pc = "start"
  /\ OnOpenPullRequest(x)
  /\ x.hookPayload.action \in {"opened", "reopened"}
  /\ \E ok \in Outcomes(h) :
       LET x1 == [x EXCEPT !.sha = x.hookPayload.head]
           x2 == Logged(x1, StatusCall(x.hookPayload.head, pendingPayload, ok))
       IN Set(h, IF ok THEN [x2 EXCEPT !.pc = "opened_get"]
                 ELSE Thrown(x2, "setCommitStatus", "pending"))
  /\ UNCHANGED <<world, db>>

\* Mutation: the record is created whether or not onGet found one.
OnGetThenAlwaysCreate(h, at, found, missing) ==
  LET x == ex[h]
      n == x.hookPayload.number
  IN
  /\ x.pc = at
  /\ \E ok \in Outcomes(h) :
       LET x1 == Logged(x, Call("onGet", n, ok)) IN
       Set(h, IF ok THEN [x1 EXCEPT !.dbPR = StoreGet(n), !.pc = missing]
              ELSE Thrown(x1, "onGet", n))
  /\ UNCHANGED <<world, db>>

\* let dbPR = await pullRequestHandler.onGet(dbRepoId, number)
OnGet(h, at, found, missing) ==
  LET x == ex[h]
      n == x.hookPayload.number
  IN
  /\ x.pc = at
  /\ \E ok \in Outcomes(h) :
       LET x1 == Logged(x, Call("onGet", n, ok)) IN
       Set(h, IF ok THEN [x1 EXCEPT !.dbPR = StoreGet(n),
                                    !.pc = IF StoreGet(n).exists THEN found
                                           ELSE missing]
              ELSE Thrown(x1, "onGet", n))
  /\ UNCHANGED <<world, db>>

\* if (!dbPR) dbPR = await pullRequestHandler.onCreatePullRequest(dbRepoId, number)
OnCreatePullRequest(h, at, created) ==
  LET x == ex[h]
      n == x.hookPayload.number
  IN
  /\ x.pc = at
  /\ \E ok \in Outcomes(h) :
       LET x1 == Logged(x, Call("onCreatePullRequest", n, ok)) IN
       /\ db' = IF ok THEN StoreCreate(n) ELSE db
       /\ Set(h, IF ok THEN [x1 EXCEPT !.dbPR = StoreCreate(n)[n], !.pc = created]
                 ELSE Thrown(x1, "onCreatePullRequest", n))
  /\ UNCHANGED world

OnGetOpened(h) == OnGet(h, "opened_get", "opened_record", "opened_create")

OnCreateOpened(h) == OnCreatePullRequest(h, "opened_create", "opened_record")

\* if (action === 'opened' && minimum > 0): report pending and return
ReportOpened(h) ==
  LET x == ex[h] IN
  /\ x.pc = "opened_record"
  /\ x.hookPayload.action = "opened" /\ minimum > 0
  /\ \E ok \in Outcomes(h) :
       LET status == [state |-> "pending",
                      description |-> generateStatusMessage(0, minimum)]
           x1 == Logged(x, StatusCall(x.hookPayload.head, status, ok))
       IN Set(h, IF ok THEN Returned(x1)
                 ELSE Thrown(x1, "setCommitStatus", "pending"))
  /\ UNCHANGED <<world, db>>

\* const comments = await github.getComments(.., formatDate(dbPR.last_push), ..)
\* const countConfig = Object.assign({}, config.approvals, {ignore: [opener]})
GetComments(h, at, opener) ==
  LET x == ex[h]
      n == x.hookPayload.number
  IN
  /\ x.pc = at
  /\ \E ok \in Outcomes(h) :
       LET x1 == Logged(x, GetCommentsCall(n, x.dbPR.last_push, ok)) IN
       Set(h, IF ok
              THEN [x1 EXCEPT !.comments = CommentsSince(n, x.dbPR.last_push),
                              !.countConfig =
                                 [config.approvals EXCEPT !.ignore = {opener}],
                              !.pc = "count"]
              ELSE Thrown(x1, "getComments", n))
  /\ UNCHANGED <<world, db>>

\* Mutation: the early return of an opened event is not exclusive.
GetCommentsAlways(h) == GetComments(h, "opened_record", ex[h].hookPayload.user)

GetCommentsReopened(h) ==
  /\ ~(ex[h].hookPayload.action = "opened" /\ minimum > 0)
  /\ GetComments(h, "opened_record", ex[h].hookPayload.user)

(***************************************************************************)
(* countApprovals.                                                         *)
(***************************************************************************)
\* Mutation: the quick username check is left out.
FirstCheckWithoutUsers(from, username) ==
  IF from.collaborators THEN "collab"
  ELSE IF from.orgs # <<>> THEN "orgs"
  ELSE IF username \in from.users THEN "yes"
  ELSE "no"

\* What the async function mapped over filtered does for one comment up to
\* its first await: "yes" for a listed user, else the isCollaborator call is
\* issued, else the isMemberOfOrg calls are, else the approval does not count.
FirstCheck(from, username) ==
  IF username \in from.users THEN "yes"
  ELSE IF from.collaborators THEN "collab"
  ELSE IF from.orgs # <<>> THEN "orgs"
  ELSE "no"

\* The calls one comment's author causes on entering task state st.
IssuedCalls(from, username, st) ==
  IF st = "collab" THEN <<OracleCall("isCollaborator", "", username)>>
  ELSE IF st = "orgs"
  THEN [i \in 1..Len(from.orgs) |->
          OracleCall("isMemberOfOrg", from.orgs[i], username)]
  ELSE <<>>

RECURSIVE FanOutCalls(_, _)
FanOutCalls(from, filtered) ==
  IF filtered = <<>> THEN <<>>
  ELSE IssuedCalls(from, Head(filtered).user,
                   FirstCheck(from, Head(filtered).user))
       \o FanOutCalls(from, Tail(filtered))

Authors(filtered) == {filtered[i].user : i \in 1..Len(filtered)}

\* countApprovals up to its first await: the three filters, the early
\* returns, and the fan-out of the membership checks.
CountApprovals(h) ==
  LET x == ex[h]
      cfg == x.countConfig
      filtered == Filtered(x.comments, cfg)
  IN
  /\ x.pc = "count"
  /\ Set(h,
       IF PatternThrows(x.comments, cfg)
       THEN Thrown(x, "SyntaxError", "Invalid regular expression")
       ELSE IF filtered = <<>>
       THEN [x EXCEPT !.approvals = 0, !.pc = "counted"]
       ELSE IF ~cfg.from.set
       THEN [x EXCEPT !.approvals = Len(filtered), !.pc = "counted"]
       ELSE [x EXCEPT !.tasks = [u \in Users |->
                                   IF u \in Authors(filtered)
                                   THEN FirstCheck(cfg.from, u) ELSE "none"],
                      !.trace = @ \o FanOutCalls(cfg.from, filtered),
                      !.pc = "join"])
  /\ UNCHANGED <<world, db>>

\* A membership check of username rejects: Promise.all rejects with the first
\* rejection, and the other checks go on.
Rejected(x, username, name) ==
  LET x1 == [x EXCEPT !.tasks[username] = "failed",
                      !.failures = Append(@, <<name, username>>)]
  IN IF x.pc = "join" THEN [x1 EXCEPT !.pc = "catch", !.e = <<name, username>>]
     ELSE x1

\* await github.isCollaborator(..) answers for username.
IsCollaboratorReturns(h, username) ==
  LET x == ex[h]
      from == x.countConfig.from
      next == IF username \in collaborators THEN "yes"
              ELSE IF from.orgs # <<>> THEN "orgs" ELSE "no"
  IN
  /\ x.tasks[username] = "collab"
  /\ \E ok \in Outcomes(h) :
       Set(h, IF ok
              THEN [x EXCEPT !.tasks[username] = next,
                             !.trace = @ \o IssuedCalls(from, username, next)]
              ELSE Rejected(x, username, "isCollaborator"))
  /\ UNCHANGED <<world, db>>

\* Mutation: the author has to be a member of every listed organisation.
IsMemberOfOrgReturnsEvery(h, username) ==
  LET x == ex[h]
      orgs == x.countConfig.from.orgs
      orgMember == [i \in 1..Len(orgs) |-> username \in orgMembers[orgs[i]]]
  IN
  /\ x.tasks[username] = "orgs"
  /\ \E ok \in Outcomes(h) :
       Set(h, IF ok
              THEN [x EXCEPT !.tasks[username] =
                       IF \A i \in 1..Len(orgs) : orgMember[i] THEN "yes"
                       ELSE "no"]
              ELSE Rejected(x, username, "isMemberOfOrg"))
  /\ UNCHANGED <<world, db>>

\* await Promise.all(orgs.map(o => github.isMemberOfOrg(o, username, token)))
IsMemberOfOrgReturns(h, username) ==
  LET x == ex[h]
      orgs == x.countConfig.from.orgs
      orgMember == [i \in 1..Len(orgs) |-> username \in orgMembers[orgs[i]]]
  IN
  /\ x.tasks[username] = "orgs"
  /\ \E ok \in Outcomes(h) :
       Set(h, IF ok
              THEN [x EXCEPT !.tasks[username] =
                       IF \E i \in 1..Len(orgs) : orgMember[i] THEN "yes"
                       ELSE "no"]
              ELSE Rejected(x, username, "isMemberOfOrg"))
  /\ UNCHANGED <<world, db>>

\* Mutation: the count is returned without joining the membership checks.
CountApprovalsReturnsUnjoined(h) ==
  LET x == ex[h] IN
  /\ x.pc = "join"
  /\ Set(h, [x EXCEPT !.approvals = Cardinality({u \in Users : x.tasks[u] = "yes"}),
                      !.pc = "counted"])
  /\ UNCHANGED <<world, db>>

\* return filtered.filter(c => !!c).length, once every check has answered.
CountApprovalsReturns(h) ==
  LET x == ex[h] IN
  /\ x.pc = "join"
  /\ \A u \in Users : x.tasks[u] \in {"none", "yes", "no"}
  /\ Set(h, [x EXCEPT !.approvals = Cardinality({u \in Users : x.tasks[u] = "yes"}),
                      !.pc = "counted"])
  /\ UNCHANGED <<world, db>>

(***************************************************************************)
(* execute: the final determination, the synchronize branch, the comment   *)
(* branch and the catch block.                                             *)
(***************************************************************************)
\* Mutation: the quorum is compared with <= instead of <.
FinalStatusOffByOne(approvals) ==
  [state |-> IF approvals <= minimum THEN "pending" ELSE "success",
   description |-> generateStatusMessage(approvals, minimum)]

\* const state = approvals < minimum ? 'pending' : 'success'
FinalStatus(approvals) ==
  [state |-> IF approvals < minimum THEN "pending" ELSE "success",
   description |-> generateStatusMessage(approvals, minimum)]

\* await github.setCommitStatus(user, repo, <head sha>, status, token)
ReportFinal(h, target) ==
  LET x == ex[h] IN
  /\ x.pc = "counted"
  /\ \E ok \in Outcomes(h) :
       LET x1 == Logged(x, StatusCall(target, FinalStatus(x.approvals), ok)) IN
       Set(h, IF ok THEN Returned(x1)
              ELSE Thrown(x1, "setCommitStatus", FinalStatus(x.approvals).state))
  /\ UNCHANGED <<world, db>>

ReportReopened(h) ==
  /\ ex[h].hookPayload.pull_request
  /\ ReportFinal(h, ex[h].hookPayload.head)

\* else if (action === 'synchronize'): await pullRequestHandler.onAddCommit(..)
OnAddCommit(h) ==
  LET x == ex[h]
      n == x.hookPayload.number
  IN
  /\ x.pc = "start"
  /\ OnOpenPullRequest(x)
  /\ x.hookPayload.action = "synchronize"
  /\ \E ok \in Outcomes(h) :
       LET x1 == Logged(x, Call("onAddCommit", n, ok)) IN
       /\ db' = IF ok THEN StoreAddCommit(n) ELSE db
       /\ Set(h, IF ok THEN [x1 EXCEPT !.pc = "synchronize_report"]
                 ELSE Thrown(x1, "onAddCommit", n))
  /\ UNCHANGED world

\* await github.setCommitStatus(.., pull_request.head.sha, {state: 'pending', ..})
ReportSynchronize(h) ==
  LET x == ex[h] IN
  /\ x.pc = "synchronize_report"
  /\ \E ok \in Outcomes(h) :
       LET status == [state |-> "pending",
                      description |-> generateStatusMessage(0, minimum)]
           x1 == Logged(x, StatusCall(x.hookPayload.head, status, ok))
       IN Set(h, IF ok THEN Returned(x1)
                 ELSE Thrown(x1, "setCommitStatus", "pending"))
  /\ UNCHANGED <<world, db>>

\* Mutation: the lookup's result is used without the check of pr.state.
GetPullRequestAnyState(h) ==
  LET x == ex[h]
      n == x.hookPayload.number
      pr == LookupPullRequest(n)
  IN
  /\ x.pc = "start"
  /\ ~OnOpenPullRequest(x)
  /\ x.hookPayload.issue
  /\ \E ok \in Outcomes(h) :
       LET x1 == Logged(x, Call("getPullRequest", n, ok)) IN
       Set(h, IF ~ok THEN Thrown(x1, "getPullRequest", n)
              ELSE IF ~pr.exists
              THEN Returned([x1 EXCEPT !.pr = pr])
              ELSE [x1 EXCEPT !.pr = pr, !.sha = pr.head, !.pc = "comment_pending"])
  /\ UNCHANGED <<world, db>>

\* else if (!!issue): const pr = await github.getPullRequest(..);
\* if (!pr || pr.state !== 'open') return; sha = pr.head.sha
GetPullRequest(h) ==
  LET x == ex[h]
      n == x.hookPayload.number
      pr == LookupPullRequest(n)
  IN
  /\ x.pc = "start"
  /\ ~OnOpenPullRequest(x)
  /\ x.hookPayload.issue
  /\ \E ok \in Outcomes(h) :
       LET x1 == Logged(x, Call("getPullRequest", n, ok)) IN
       Set(h, IF ~ok THEN Thrown(x1, "getPullRequest", n)
              ELSE IF ~pr.exists \/ pr.state # "open"
              THEN Returned([x1 EXCEPT !.pr = pr])
              ELSE [x1 EXCEPT !.pr = pr, !.sha = pr.head, !.pc = "comment_pending"])
  /\ UNCHANGED <<world, db>>

\* await github.setCommitStatus(user, repo, pr.head.sha, pendingPayload, token)
SetPendingComment(h) ==
  LET x == ex[h] IN
  /\ x.pc = "comment_pending"
  /\ \E ok \in Outcomes(h) :
       LET x1 == Logged(x, StatusCall(x.pr.head, pendingPayload, ok)) IN
       Set(h, IF ok THEN [x1 EXCEPT !.pc = "comment_get"]
              ELSE Thrown(x1, "setCommitStatus", "pending"))
  /\ UNCHANGED <<world, db>>

OnGetComment(h) == OnGet(h, "comment_get", "comment_record", "comment_create")

OnCreateComment(h) == OnCreatePullRequest(h, "comment_create", "comment_record")

GetCommentsComment(h) == GetComments(h, "comment_record", ex[h].pr.user)

ReportComment(h) ==
  /\ ex[h].hookPayload.issue
  /\ ReportFinal(h, ex[h].pr.head)

\* Mutation: the catch block reports a fixed text instead of e.message.
CatchGenericMessage(h) ==
  LET x == ex[h] IN
  /\ x.pc = "catch"
  /\ \E ok \in Outcomes(h) :
       LET status == [state |-> "error", description |-> <<"Error", "unknown">>]
           x1 == Logged(x, StatusCall(x.sha, status, ok))
       IN Set(h, IF ok THEN Returned(x1)
                 ELSE [x1 EXCEPT !.pc = "done", !.result = "threw",
                                 !.failures = Append(@, <<"setCommitStatus", "error">>)])
  /\ UNCHANGED <<world, db>>

\* catch(e): await github.setCommitStatus(user, repo, sha, {state: 'error', ..})
\* A rejection of this await leaves execute through its caller.
Catch(h) ==
  LET x == ex[h] IN
  /\ x.pc = "catch"
  /\ \E ok \in Outcomes(h) :
       LET status == [state |-> "error", description |-> x.e]
           x1 == Logged(x, StatusCall(x.sha, status, ok))
       IN Set(h, IF ok THEN Returned(x1)
                 ELSE [x1 EXCEPT !.pc = "done", !.result = "threw",
                                 !.failures = Append(@, <<"setCommitStatus", "error">>)])
  /\ UNCHANGED <<world, db>>

(***************************************************************************)
(* The environment: GitHub users comment on the pull request.              *)
(***************************************************************************)
\* No execute is in flight.
Quiescent == \A h \in Handlers : ex[h].pc = "idle"

PostComment(u, body) ==
  /\ Quiescent
  /\ Len(posted) < MaxComments
  /\ now' = now + 1
  /\ posted' = Append(posted, [user |-> u, body |-> body, created_at |-> now + 1])
  /\ UNCHANGED <<config, collaborators, orgMembers, pull, db, ex>>

\* The payloads GitHub can send now.
PullRequestActions ==
  {<<"opened", "open">>, <<"reopened", "open">>, <<"synchronize", "open">>,
   <<"closed", "closed">>, <<"labeled", "open">>}

Payloads ==
  {[pull_request |-> TRUE, issue |-> FALSE, action |-> a[1], number |-> PRNumber,
    state |-> a[2], head |-> pull.head, user |-> pull.user] : a \in PullRequestActions}
  \cup
  {[pull_request |-> FALSE, issue |-> TRUE, action |-> "created", number |-> n,
    state |-> "none", head |-> 0, user |-> "nobody"] : n \in Numbers}

(***************************************************************************)
(* The specification: events are handled one after the other.              *)
(***************************************************************************)
Configs ==
  [minimum : 0..MaxMinimum, pattern : Patterns, from : Froms,
   ignore : {{}, {"carol"}}]

Init ==
  /\ config \in [approvals : Configs]
  /\ collaborators = {"alice", "carol"}
  /\ orgMembers = [o \in Orgs |-> IF o = "zal" THEN {"alice", "bob"} ELSE {}]
  /\ now = 0
  /\ pull = [exists |-> TRUE, state |-> "open", head |-> 1, user |-> Opener,
            pushed_at |-> 0]
  /\ posted = <<>>
  /\ db = [n \in Numbers |-> NoRecord]
  /\ ex = [h \in Handlers |-> Idle]

Step(h) ==
  \/ Ignore(h)
  \/ SetPendingOpened(h) \/ OnGetOpened(h) \/ OnCreateOpened(h)
  \/ ReportOpened(h) \/ GetCommentsReopened(h) \/ ReportReopened(h)
  \/ OnAddCommit(h) \/ ReportSynchronize(h)
  \/ GetPullRequest(h) \/ SetPendingComment(h) \/ OnGetComment(h)
  \/ OnCreateComment(h) \/ GetCommentsComment(h) \/ ReportComment(h)
  \/ CountApprovals(h) \/ CountApprovalsReturns(h)
  \/ \E u \in Users : IsCollaboratorReturns(h, u) \/ IsMemberOfOrgReturns(h, u)
  \/ Catch(h)
  \/ Complete(h)

Environment == \E u \in Users, body \in Bodies : PostComment(u, body)

Next ==
  \/ \E p \in Payloads : Quiescent /\ Deliver(1, p)
  \/ Step(1)
  \/ Environment

Spec == Init /\ [][Next]_vars

(***************************************************************************)
(* The specification of overlapping events: execute is started for an      *)
(* event while earlier events are still being handled, and every await is  *)
(* a point where another handler may run.  Comments and commits arrive     *)
(* between the events.                                                     *)
(***************************************************************************)
\* A commit is pushed to the pull request: GitHub moves its head.
Push ==
  /\ Quiescent
  /\ pull.head <= MaxPush
  /\ now' = now + 1
  /\ pull' = [pull EXCEPT !.head = @ + 1, !.pushed_at = now + 1]
  /\ UNCHANGED <<config, collaborators, orgMembers, posted, db, ex>>

\* from: collaborators and the members of the listed organisations.
FromTeam ==
  [set |-> TRUE, users |-> {}, collaborators |-> TRUE, orgs |-> <<"acme", "zal">>]

ConcConfigs ==
  [minimum : {1}, pattern : {PatternExact}, from : {NoFrom, FromTeam},
   ignore : {{}}]

InitConc ==
  /\ config \in [approvals : ConcConfigs]
  /\ collaborators = {"alice", "carol"}
  /\ orgMembers = [o \in Orgs |-> IF o = "zal" THEN {"alice", "bob"} ELSE {}]
  /\ now = 0
  /\ pull = [exists |-> TRUE, state |-> "open", head |-> 1, user |-> Opener,
            pushed_at |-> 0]
  /\ posted = <<>>
  /\ db = [n \in Numbers |-> NoRecord]
  /\ ex = [h \in Handlers |-> Idle]

\* The events about the pull request.
ConcPayloads == {p \in Payloads : p.number = PRNumber}

\* bob approves.
Approve == PostComment("bob", BodyPadded)

\* The handlers are interchangeable: an event goes to the first idle one.
NextConc ==
  \/ \E h \in Handlers, p \in ConcPayloads :
        /\ \A g \in 1..(h - 1) : ex[g].pc # "idle"
        /\ Deliver(h, p)
  \/ \E h \in Handlers : Step(h)
  \/ Approve
  \/ Push

SpecConc == InitConc /\ [][NextConc]_vars

(***************************************************************************)
(* A second specification: countApprovals alone, called on every comment   *)
(* list of up to MaxComments comments and every configuration.             *)
(***************************************************************************)
CommentsOfLength(n) ==
  {[i \in 1..n |-> [user |-> f[i][1], body |-> f[i][2], created_at |-> i]] :
     f \in [1..n -> Users \X Bodies]}

CommentLists == UNION {CommentsOfLength(n) : n \in 0..MaxComments}

CountFroms ==
  {NoFrom} \cup
  [set : {TRUE}, users : SUBSET {"alice", "bob"}, collaborators : BOOLEAN,
   orgs : {<<>>, <<"acme", "zal">>}]

CountConfigs ==
  [minimum : {1}, pattern : Patterns, from : CountFroms, ignore : SUBSET Users]

\* What the oracle knows: carol is a collaborator, or nothing at all.
CountCollaborators == {{"alice", "carol"}, {"alice"}}

InitCount ==
  /\ config \in [approvals : CountConfigs]
  /\ collaborators \in CountCollaborators
  /\ orgMembers = [o \in Orgs |-> IF o = "zal" THEN {"alice", "bob"} ELSE {}]
  /\ now = 0
  /\ pull = [exists |-> TRUE, state |-> "open", head |-> 1, user |-> Opener,
            pushed_at |-> 0]
  /\ posted = <<>>
  /\ db = [n \in Numbers |-> NoRecord]
  /\ \E comments \in CommentLists :
       ex = [h \in Handlers |->
               IF h = 1
               THEN [Idle EXCEPT !.pc = "count", !.comments = comments,
                                 !.countConfig = config.approvals]
               ELSE Idle]

NextCount ==
  \/ CountApprovals(1)
  \/ \E u \in Users : IsCollaboratorReturns(1, u) \/ IsMemberOfOrgReturns(1, u)
  \/ CountApprovalsReturns(1)

SpecCount == InitCount /\ [][NextCount]_vars

(***************************************************************************)
(* A third specification: countApprovals called twice, on a comment list   *)
(* and on the same list with one more matching comment of an author who    *)
(* already has one, inserted somewhere after it.                           *)
(***************************************************************************)
\* comments with comment c inserted before position j, numbered oldest first.
InsertAt(comments, j, c) ==
  LET longer == SubSeq(comments, 1, j - 1) \o <<c>>
                \o SubSeq(comments, j, Len(comments))
  IN [k \in 1..Len(longer) |-> [longer[k] EXCEPT !.created_at = k]]

\* The lists that repeat a comment of comments that is not ignored and matches.
Duplications(comments, cfg) ==
  {InsertAt(comments, j, [comments[i] EXCEPT !.body = body]) :
     <<i, j, body>> \in
       {t \in (1..Len(comments)) \X (2..(Len(comments) + 1)) \X Bodies :
          /\ t[1] < t[2]
          /\ cfg.pattern.ok
          /\ comments[t[1]].user \notin cfg.ignore
          /\ RegExpTest(cfg.pattern, Trim(comments[t[1]].body))
          /\ RegExpTest(cfg.pattern, Trim(t[3]))}}

DupConfigs ==
  [minimum : {1}, pattern : Patterns, from : CountFroms,
   ignore : {{}, {"alice"}}]

InitDup ==
  /\ config \in [approvals : DupConfigs]
  /\ collaborators \in CountCollaborators
  /\ orgMembers = [o \in Orgs |-> IF o = "zal" THEN {"alice", "bob"} ELSE {}]
  /\ now = 0
  /\ pull = [exists |-> TRUE, state |-> "open", head |-> 1, user |-> Opener,
            pushed_at |-> 0]
  /\ posted = <<>>
  /\ db = [n \in Numbers |-> NoRecord]
  /\ \E comments \in CommentLists :
       \E longer \in Duplications(comments, config.approvals) :
         ex = [h \in Handlers |->
                 IF h \in {1, 2}
                 THEN [Idle EXCEPT !.pc = "count",
                                   !.comments = IF h = 1 THEN comments ELSE longer,
                                   !.countConfig = config.approvals]
                 ELSE Idle]

\* The second call is made when the first has returned or thrown and none of
\* its membership checks is pending.
NextDup ==
  \/ CountApprovals(1)
  \/ /\ ex[1].pc \in {"counted", "catch"}
     /\ \A u \in Users : ex[1].tasks[u] \notin {"collab", "orgs"}
     /\ CountApprovals(2)
  \/ \E h \in {1, 2}, u \in Users :
        IsCollaboratorReturns(h, u) \/ IsMemberOfOrgReturns(h, u)
  \/ \E h \in {1, 2} : CountApprovalsReturns(h)

SpecDup == InitDup /\ [][NextDup]_vars

(***************************************************************************)
(* A fourth specification: generateStatusMessage, applied by the report of *)
(* the final determination of a comment event to every pair of a count in  *)
(* 0..MaxActual and a minimum in 0..MaxNeeded.                             *)
(***************************************************************************)
InitMessage ==
  /\ config \in [approvals : [minimum : 0..MaxNeeded, pattern : {PatternExact},
                               from : {NoFrom}, ignore : {{}}]]
  /\ collaborators = {"alice", "carol"}
  /\ orgMembers = [o \in Orgs |-> IF o = "zal" THEN {"alice", "bob"} ELSE {}]
  /\ now = 0
  /\ pull = [exists |-> TRUE, state |-> "open", head |-> 1, user |-> Opener,
            pushed_at |-> 0]
  /\ posted = <<>>
  /\ db = [n \in Numbers |-> IF n = PRNumber THEN [exists |-> TRUE, last_push |-> 0]
                               ELSE NoRecord]
  /\ \E actual \in 0..MaxActual :
       ex = [h \in Handlers |->
               IF h = 1
               THEN [Idle EXCEPT
                       !.pc = "counted",
                       !.hookPayload = [NoPayload EXCEPT !.issue = TRUE,
                                                         !.action = "created"],
                       !.pr = pull, !.sha = pull.head, !.dbPR = db[PRNumber],
                       !.countConfig = [config.approvals EXCEPT !.ignore = {Opener}],
                       !.approvals = actual]
               ELSE Idle]

NextMessage == ReportComment(1) \/ Catch(1)

SpecMessage == InitMessage /\ [][NextMessage]_vars

(***************************************************************************)
(* Vocabulary of the properties.                                           *)
(***************************************************************************)
\* The status reports an execute has issued so far, in order.
Reports(x) == SelectSeq(x.trace, LAMBDA c : c.call = "setCommitStatus")

CallNames(x) == [i \in 1..Len(x.trace) |-> x.trace[i].call]

Last(s) == s[Len(s)]

Finished(x) == x.pc = "done"

Reopening(x) == OnOpenPullRequest(x) /\ x.hookPayload.action \in {"opened", "reopened"}

Synchronizing(x) == OnOpenPullRequest(x) /\ x.hookPayload.action = "synchronize"

\* A comment event about the open pull request.
Commenting(x) == x.hookPayload.issue /\ x.hookPayload.number = PRNumber

\* The events whose handling counts approvals.
Counting(x) ==
  \/ Reopening(x) /\ ~(x.hookPayload.action = "opened" /\ minimum > 0)
  \/ Commenting(x)

\* Whether the membership rules of from let username approve.
Qualifies(from, username) ==
  \/ ~from.set
  \/ username \in from.users
  \/ from.collaborators /\ username \in collaborators
  \/ \E i \in 1..Len(from.orgs) : username \in orgMembers[from.orgs[i]]

\* The users outside excluded with a matching comment on the pull request
\* created after since, who qualify under from.
Approvers(since, excluded) ==
  {u \in Users \ excluded :
     /\ \E i \in 1..Len(posted) :
          /\ posted[i].user = u
          /\ posted[i].created_at > since
          /\ RegExpTest(config.approvals.pattern, Trim(posted[i].body))
     /\ Qualifies(config.approvals.from, u)}

(***************************************************************************)
(* C1.  For a reopened event, an opened event with minimum = 0, or a       *)
(* comment event on the open pull request, handled without any failure,    *)
(* the last status reported is success if and only if the number of        *)
(* approvals is at least minimum, and pending otherwise, where the         *)
(* approvals are counted among the comments created after the PR record's  *)
(* last_push.                                                              *)
(***************************************************************************)
C1_FinalStateIsQuorum ==
  \A h \in Handlers :
    LET x == ex[h]
        count == Cardinality(Approvers(db[PRNumber].last_push, {Opener}))
    IN (Finished(x) /\ Counting(x) /\ x.failures = <<>>)
       => /\ Reports(x) # <<>>
          /\ Last(Reports(x)).state = IF count >= minimum THEN "success" ELSE "pending"

\* A comment event ends in success on the one approval given after last_push,
\* while an earlier approval, created before last_push, is left out.
C1_Witness ==
  \E h \in Handlers :
    LET x == ex[h] IN
    /\ Finished(x) /\ Commenting(x) /\ x.failures = <<>>
    /\ minimum = 1
    /\ Last(Reports(x)).state = "success"
    /\ Cardinality(Approvers(db[PRNumber].last_push, {Opener})) = 1
    /\ Cardinality(Approvers(0, {Opener})) = 2

(***************************************************************************)
(* C2.  For every synchronize event on the open pull request and every     *)
(* minimum, minimum = 0 included, execute updates the record's last_push   *)
(* and reports pending with the message "This PR needs <minimum> more      *)
(* approvals (0/<minimum> given)."                                         *)
(***************************************************************************)
C2_SynchronizeNeedsMinimum ==
  \A h \in Handlers :
    LET x == ex[h] IN
    (Finished(x) /\ Synchronizing(x) /\ x.failures = <<>>)
    => /\ db[PRNumber].exists => db[PRNumber].last_push = now
       /\ Len(Reports(x)) = 1
       /\ Last(Reports(x)).state = "pending"
       /\ Last(Reports(x)).description =
            <<"This PR needs ", minimum, " more approvals (", 0, "/", minimum,
              " given).">>

\* The calls a step adds to the trace of a handler.
NewCalls(x, y) ==
  IF y.hookPayload = x.hookPayload /\ Len(y.trace) >= Len(x.trace)
  THEN {y.trace[i] : i \in (Len(x.trace) + 1)..Len(y.trace)}
  ELSE {}

ErrorReports(x) == SelectSeq(Reports(x), LAMBDA c : c.state = "error")

\* One report of state error, carrying the message of the first failure.
OneErrorReport(x) ==
  /\ Len(ErrorReports(x)) = 1
  /\ ErrorReports(x)[1].description = x.failures[1]
  /\ Last(x.trace) = ErrorReports(x)[1] \/ Last(x.trace).call = "isMemberOfOrg"

\* No failed call is issued again, and no oracle question is asked twice.
NothingRetried(x) ==
  \A i, j \in 1..Len(x.trace) :
    (i < j /\ x.trace[i].call = x.trace[j].call)
    => IF x.trace[i].call \in {"isCollaborator", "isMemberOfOrg"}
       THEN x.trace[i] # x.trace[j]
       ELSE ~x.trace[i].ok => [x.trace[j] EXCEPT !.ok = FALSE] # x.trace[i]

(***************************************************************************)
(* C3.  Once a collaborator call or the pattern match has failed, execute  *)
(* calls the record store, the comment source and the membership oracle    *)
(* no more, and issues exactly one report of state error whose             *)
(* description is the error's message; nothing is retried.                 *)
(***************************************************************************)
C3_NoCallAfterFailure ==
  /\ [](\A h \in Handlers :
          (Finished(ex[h]) /\ ex[h].failures # <<>>)
          => OneErrorReport(ex[h]) /\ NothingRetried(ex[h]))
  /\ [][\A h \in Handlers :
          ex[h].failures # <<>>
          => \A c \in NewCalls(ex[h], ex'[h]) : c.call = "setCommitStatus"]_vars

\* C3, the part that holds: after a failure execute calls the record store and
\* the comment source no more and issues exactly one error report with the
\* first error's message, retrying nothing.  The membership checks that
\* Promise.all fanned out for the other authors run on, so isMemberOfOrg calls
\* for an author whose isCollaborator call was already issued may follow.
C3_NoStoreOrCommentCallAfterFailure ==
  /\ [](\A h \in Handlers :
          (Finished(ex[h]) /\ ex[h].failures # <<>>)
          => OneErrorReport(ex[h]) /\ NothingRetried(ex[h]))
  /\ [][\A h \in Handlers :
          ex[h].failures # <<>>
          => \A c \in NewCalls(ex[h], ex'[h]) :
               \/ c.call = "setCommitStatus"
               \/ /\ c.call = "isMemberOfOrg"
                  /\ \E i \in 1..Len(ex[h].trace) :
                       /\ ex[h].trace[i].call = "isCollaborator"
                       /\ ex[h].trace[i].user = c.user]_vars

\* An isCollaborator call failed and was reported as the one error, and the
\* membership check of another author went on to ask isMemberOfOrg.
C3_Witness ==
  \E h \in Handlers :
    LET x == ex[h] IN
    /\ Finished(x) /\ x.result = "returned"
    /\ Len(x.failures) = 1 /\ x.failures[1][1] = "isCollaborator"
    /\ ErrorReports(x)[1].description = x.failures[1]
    /\ Last(x.trace).call = "isMemberOfOrg"

(***************************************************************************)
(* C4.  The error report targets the last commit SHA resolved before the   *)
(* failure: the event's head SHA for every opened, reopened or synchronize *)
(* event on an open pull request, the looked-up head SHA for a comment     *)
(* event that fails after the lookup, and the empty SHA only when the      *)
(* failure came before any SHA was known.                                  *)
(***************************************************************************)
C4_ErrorTargetsResolvedSha ==
  \A h \in Handlers :
    LET x == ex[h] IN
    (Finished(x) /\ ErrorReports(x) # <<>>)
    => /\ (Reopening(x) \/ Synchronizing(x))
            => ErrorReports(x)[1].sha = x.hookPayload.head
       /\ (x.hookPayload.issue /\ x.pr.exists)
            => ErrorReports(x)[1].sha = x.pr.head
       /\ ErrorReports(x)[1].sha = EmptySha
            => x.failures[1][1] = "getPullRequest"

(***************************************************************************)
(* C5.  execute never raises an error to its caller: whatever calls fail,  *)
(* the status reporter's included, it completes normally.                  *)
(***************************************************************************)
C5_NeverThrows ==
  \A h \in Handlers : Finished(ex[h]) => ex[h].result = "returned"

\* The events execute reacts to.
Triggering(x) == Reopening(x) \/ Synchronizing(x) \/ Commenting(x)

(***************************************************************************)
(* C6.  For every event that triggers behaviour, with or without           *)
(* collaborator failures, execute issues exactly one or two status         *)
(* reports, an initial pending placeholder and then one final              *)
(* determination: never zero, never three.                                 *)
(***************************************************************************)
C6_OneOrTwoReports ==
  \A h \in Handlers :
    (Finished(ex[h]) /\ Triggering(ex[h])) => Len(Reports(ex[h])) \in {1, 2}

\* C6, the part that holds: one to three reports.  Without a failure a
\* synchronize event gets one report and every other triggering event two, the
\* pending placeholder first; with a failure the error report is the last one,
\* and there are three only when the report of the final determination failed.
C6_OneToThreeReports ==
  \A h \in Handlers :
    LET x == ex[h]
        n == Len(Reports(x))
    IN (Finished(x) /\ Triggering(x))
       => /\ n \in {1, 2, 3}
          /\ x.failures = <<>>
               => /\ n = IF Synchronizing(x) THEN 1 ELSE 2
                  /\ n = 2 => /\ Reports(x)[1].state = "pending"
                              /\ Reports(x)[1].description = pendingPayload.description
                  /\ Last(Reports(x)).state # "error"
          /\ x.failures # <<>> => Last(Reports(x)).state = "error"
          /\ n = 3 => /\ Reports(x)[1].description = pendingPayload.description
                      /\ ~Reports(x)[2].ok
                      /\ Reports(x)[2].state # "error"

\* Three reports: the placeholder, the final determination that failed and
\* the error report.
C6_Witness ==
  \E h \in Handlers :
    /\ Finished(ex[h]) /\ Triggering(ex[h])
    /\ Len(Reports(ex[h])) = 3
    /\ Reports(ex[h])[2].state = "success"

\* The events execute does not react to.
NotTriggering(x) ==
  \/ /\ x.hookPayload.pull_request
     /\ \/ x.hookPayload.action \notin {"opened", "reopened", "synchronize"}
        \/ x.hookPayload.state # "open"
  \/ /\ x.hookPayload.issue
     /\ x.hookPayload.number \in {IssueNumber, ClosedNumber}

(***************************************************************************)
(* C7.  An event that does not trigger behaviour is a no-op: for a pull    *)
(* request event whose action is none of opened, reopened, synchronize or  *)
(* whose pull request is not open, and for a comment event whose issue is  *)
(* not an open pull request, execute reports no status, creates or updates *)
(* no PR record and fetches no comments.                                   *)
(***************************************************************************)
C7_NoOpEvents ==
  /\ \A h \in Handlers :
       LET x == ex[h] IN
       (x.pc # "idle" /\ NotTriggering(x) /\ x.failures = <<>>)
       => \A i \in 1..Len(x.trace) :
            x.trace[i].call \notin
              {"setCommitStatus", "onGet", "onCreatePullRequest", "onAddCommit",
               "getComments"}
  /\ \A n \in {IssueNumber, ClosedNumber} : ~db[n].exists

\* A comment on the closed pull request was looked up and dropped.
C7_Witness ==
  \E h \in Handlers :
    LET x == ex[h] IN
    /\ Finished(x) /\ x.result = "returned"
    /\ x.hookPayload.issue /\ x.hookPayload.number = ClosedNumber
    /\ x.pr.state = "closed"
    /\ CallNames(x) = <<"getPullRequest">>

(***************************************************************************)
(* C8.  For an opened event on an open pull request with minimum > 0 and   *)
(* no failure, execute reports the placeholder, makes sure the PR record   *)
(* exists, reports pending with the message for 0 of minimum approvals and *)
(* stops: it fetches no comments, asks the oracle nothing and never        *)
(* reports success.                                                        *)
(***************************************************************************)
C8_OpenedStopsAtPending ==
  \A h \in Handlers :
    LET x == ex[h] IN
    (OnOpenPullRequest(x) /\ x.hookPayload.action = "opened" /\ minimum > 0
       /\ x.failures = <<>>)
    => /\ \A i \in 1..Len(x.trace) :
            /\ x.trace[i].call \notin {"getComments", "isCollaborator", "isMemberOfOrg"}
            /\ x.trace[i].call = "setCommitStatus" => x.trace[i].state = "pending"
       /\ x.pc = "opened_record" => db[PRNumber].exists /\ x.dbPR = db[PRNumber]
       /\ Finished(x)
            => /\ CallNames(x) \in
                    {<<"setCommitStatus", "onGet", "setCommitStatus">>,
                     <<"setCommitStatus", "onGet", "onCreatePullRequest",
                       "setCommitStatus">>}
               /\ x.trace[1].description = <<"Approval validation in progress.">>
               /\ Last(x.trace).description =
                    <<"This PR needs ", minimum, " more approvals (", 0, "/",
                      minimum, " given).">>
               /\ db[PRNumber].exists

\* The opened event of a pull request without a record, minimum = 2.
C8_Witness ==
  \E h \in Handlers :
    LET x == ex[h] IN
    /\ Finished(x) /\ x.hookPayload.action = "opened" /\ minimum = 2
    /\ x.failures = <<>>
    /\ posted # <<>>
    /\ CallNames(x) =
         <<"setCommitStatus", "onGet", "onCreatePullRequest", "setCommitStatus">>

(***************************************************************************)
(* C9.  While an event is handled, comments of the pull request's opener   *)
(* and comments of any user in the configuration's ignore set never count  *)
(* toward the quorum, even when the comment matches the pattern and its    *)
(* author satisfies the from rules.                                        *)
(***************************************************************************)
C9_IgnoredNeverCount ==
  \A h \in Handlers :
    LET x == ex[h] IN
    (x.pc = "counted" /\ x.failures = <<>>)
    => x.approvals <=
         Cardinality(Approvers(x.dbPR.last_push,
                               {Opener} \cup config.approvals.ignore))

\* The authors outside excluded with a comment in comments that matches.
MatchingAuthors(comments, pattern, excluded) ==
  {u \in Users \ excluded :
     \E i \in 1..Len(comments) :
        /\ comments[i].user = u
        /\ RegExpTest(pattern, Trim(comments[i].body))}

(***************************************************************************)
(* C10.  In countApprovals an author listed in config.ignore never         *)
(* contributes to the count, whatever from is: also when the author is     *)
(* listed in from.users, or is a collaborator or a member of a listed      *)
(* organisation.                                                           *)
(***************************************************************************)
C10_IgnoredAuthorsNotCounted ==
  \A h \in Handlers :
    LET x == ex[h] IN
    /\ x.pc = "counted"
         => x.approvals <=
              Cardinality(MatchingAuthors(x.comments, x.countConfig.pattern,
                                          x.countConfig.ignore))
    /\ x.pc \in {"join", "counted", "catch"}
         => \A u \in x.countConfig.ignore :
              /\ x.tasks[u] = "none"
              /\ \A i \in 1..Len(x.trace) :
                   x.trace[i].call \in {"isCollaborator", "isMemberOfOrg"}
                   => x.trace[i].user # u

\* A count of one, while a listed user who is also a collaborator has a
\* matching comment and is ignored.
C10_Witness ==
  \E h \in Handlers :
    LET x == ex[h] IN
    /\ x.pc = "counted" /\ x.approvals = 1
    /\ x.countConfig.from.set /\ x.countConfig.from.collaborators
    /\ \E u \in x.countConfig.ignore :
         /\ u \in x.countConfig.from.users
         /\ u \in collaborators
         /\ u \in MatchingAuthors(x.comments, x.countConfig.pattern, {})

(***************************************************************************)
(* C11.  With from unset countApprovals returns exactly the number of      *)
(* distinct authors outside ignore who have at least one comment whose     *)
(* trimmed body matches the pattern, also when an earlier comment of the   *)
(* author does not match; for an empty comment list it returns 0 under     *)
(* every configuration, without asking the oracle anything.                *)
(***************************************************************************)
C11_CountWithoutFrom ==
  \A h \in Handlers :
    LET x == ex[h]
        cfg == x.countConfig
    IN
    /\ (x.pc = "counted" /\ ~cfg.from.set)
         => x.approvals =
              Cardinality(MatchingAuthors(x.comments, cfg.pattern, cfg.ignore))
    /\ (x.pc \notin {"idle", "count"} /\ ~cfg.from.set /\ cfg.pattern.ok)
         => x.pc = "counted" /\ x.trace = <<>>
    /\ (x.pc \notin {"idle", "count"} /\ x.comments = <<>>)
         => x.pc = "counted" /\ x.approvals = 0 /\ x.trace = <<>>

\* An author whose first comment does not match and whose second one does is
\* counted once, from unset.
C11_Witness ==
  \E h \in Handlers :
    LET x == ex[h] IN
    /\ x.pc = "counted" /\ ~x.countConfig.from.set /\ x.approvals = 1
    /\ Len(x.comments) = 2
    /\ x.comments[1].user = x.comments[2].user
    /\ ~RegExpTest(x.countConfig.pattern, Trim(x.comments[1].body))
    /\ RegExpTest(x.countConfig.pattern, Trim(x.comments[2].body))

(***************************************************************************)
(* C12.  With from set countApprovals returns the number of distinct       *)
(* authors outside ignore with a matching comment who are listed in        *)
(* from.users, or are collaborators when from.collaborators is set, or are *)
(* members of at least one organisation of from.orgs.  An author who       *)
(* passes none of these checks is left out without any error, so a from    *)
(* without users, collaborators and orgs yields 0.                         *)
(***************************************************************************)
C12_CountWithFrom ==
  \A h \in Handlers :
    LET x == ex[h]
        cfg == x.countConfig
        matching == MatchingAuthors(x.comments, cfg.pattern, cfg.ignore)
    IN
    /\ (x.pc = "counted" /\ cfg.from.set)
         => /\ x.approvals =
                 Cardinality({u \in matching : Qualifies(cfg.from, u)})
            /\ (cfg.from.users = {} /\ ~cfg.from.collaborators
                  /\ cfg.from.orgs = <<>>) => x.approvals = 0
    /\ (x.pc \notin {"idle", "count"} /\ cfg.from.set /\ cfg.pattern.ok
          /\ x.failures = <<>>)
         => /\ x.pc \in {"join", "counted"}
            /\ \A u \in Users : x.tasks[u] # "failed"

\* Two authors have a matching comment; the collaborator counts, the other, a
\* member of no listed organisation and no listed user, is left out.
C12_Witness ==
  \E h \in Handlers :
    LET x == ex[h]
        cfg == x.countConfig
    IN
    /\ x.pc = "counted" /\ cfg.from.set /\ cfg.from.collaborators
    /\ cfg.from.orgs # <<>>
    /\ x.approvals = 1 /\ x.failures = <<>>
    /\ Cardinality(MatchingAuthors(x.comments, cfg.pattern, cfg.ignore)) = 2
    /\ \E u \in Users : x.tasks[u] = "no"

(***************************************************************************)
(* C13.  Each author contributes at most one approval: countApprovals      *)
(* returns the same number for a comment list and for the list in which a  *)
(* further matching comment of an author who already has a matching,       *)
(* non-ignored comment is inserted anywhere later, whatever from is.       *)
(***************************************************************************)
C13_DuplicateChangesNothing ==
  /\ (ex[1].pc = "counted" /\ ex[2].pc = "counted")
       => ex[1].approvals = ex[2].approvals
  /\ ex[2].pc = "counted"
       => ex[2].approvals <= Cardinality(Authors(ex[2].comments))

\* Both calls returned 1 under a from that asks the oracle; the longer list
\* carries two matching comments of the one author.
C13_Witness ==
  /\ ex[1].pc = "counted" /\ ex[2].pc = "counted"
  /\ ex[1].approvals = 1 /\ ex[2].approvals = 1
  /\ ex[1].countConfig.from.set
  /\ Len(ex[1].comments) = 1 /\ Len(ex[2].comments) = 2
  /\ \E c \in DOMAIN ex[2].trace : ex[2].trace[c].call = "isCollaborator"

(***************************************************************************)
(* C14.  generateStatusMessage(actual, needed) gives "This PR needs        *)
(* <needed - actual> more approvals (<actual>/<needed> given)." exactly    *)
(* when actual < needed, the number that remains being strictly positive,  *)
(* and "This PR has <actual>/<needed> approvals since the last commit."    *)
(* exactly when actual >= needed, for all actual and needed from 0 on.     *)
(***************************************************************************)
C14_MessageForm ==
  \A h \in Handlers :
    LET x == ex[h]
        actual == x.approvals
        needed == minimum
    IN \A i \in 1..Len(Reports(x)) :
         LET r == Reports(x)[i] IN
         (r.state # "error" /\ r.description # pendingPayload.description)
         => /\ actual < needed <=> r.description[1] = "This PR needs "
            /\ actual >= needed <=> r.description[1] = "This PR has "
            /\ actual < needed
                 => /\ r.description =
                         <<"This PR needs ", needed - actual, " more approvals (",
                           actual, "/", needed, " given).">>
                    /\ r.description[2] > 0
            /\ actual >= needed
                 => r.description =
                      <<"This PR has ", actual, "/", needed,
                        " approvals since the last commit.">>

\* The message for a count that equals the minimum, both positive.
C14_Witness ==
  \E h \in Handlers :
    LET x == ex[h] IN
    /\ Finished(x) /\ x.approvals = minimum /\ minimum > 0
    /\ Len(Reports(x)) = 1
    /\ Reports(x)[1].description[1] = "This PR has "

\* The handler's event is the synchronize event of the pull request's head
\* commit, and it has been handled: last_push updated, pending reported.
SynchronizeHandled(x) ==
  /\ Synchronizing(x) /\ Finished(x) /\ x.failures = <<>>
  /\ x.hookPayload.head = pull.head
  /\ db[PRNumber].exists => db[PRNumber].last_push >= pull.pushed_at
  /\ Len(Reports(x)) = 1 /\ Reports(x)[1].state = "pending"

(***************************************************************************)
(* C15.  A new commit invalidates all prior approvals under every          *)
(* interleaving: once the synchronize event of a push has been handled, a  *)
(* handler of another event of the pull request that is still in flight    *)
(* reports success for the head commit only if the approvals given after   *)
(* that push reach the minimum, never on comments created before it.       *)
(***************************************************************************)
C15_PushInvalidatesApprovals ==
  [][\A a, b \in Handlers :
       (a # b /\ SynchronizeHandled(ex[a]))
       => \A c \in NewCalls(ex[b], ex'[b]) :
            (c.call = "setCommitStatus" /\ c.ok /\ c.state = "success"
               /\ c.sha = pull.head)
            => Cardinality(Approvers(pull.pushed_at, {Opener})) >= minimum]_vars

(***************************************************************************)
(* C16.  PR records stay unique per pull request under concurrent event    *)
(* handling: for every interleaving of the handlers of events of one pull  *)
(* request the fetch-or-create steps create at most one record, that is,   *)
(* no onCreatePullRequest succeeds for a pull request that has a record.   *)
(***************************************************************************)
C16_AtMostOneCreate ==
  [][\A h \in Handlers :
       \A c \in NewCalls(ex[h], ex'[h]) :
         (c.call = "onCreatePullRequest" /\ c.ok) => ~db[c.arg].exists]_vars

(***************************************************************************)
(* C17.  After an opened, reopened or synchronize event on the open pull   *)
(* request, or a comment event on it, has been handled without error, a    *)
(* PR record exists for the pull request, also when the event is the first *)
(* one ever seen for it; and a record, once there, is never deleted.       *)
(***************************************************************************)
C17_RecordExistsAfterEvent ==
  /\ [](\A h \in Handlers :
          (Finished(ex[h]) /\ Triggering(ex[h]) /\ ex[h].failures = <<>>)
          => db[PRNumber].exists)
  /\ [][\A n \in Numbers : db[n].exists => db'[n].exists]_vars

\* Handler h has just had its call name for issue number n answered well.
Answered(h, name, n) ==
  \E c \in NewCalls(ex[h], ex'[h]) : c.call = name /\ c.ok /\ c.arg = n

(***************************************************************************)
(* C18.  Only synchronize events change the last_push of an existing PR    *)
(* record: the handling of an opened, reopened or comment event and of any *)
(* event that is a no-op leaves every existing record as it is, whether    *)
(* the handling fails or not; all such an event does to the record store   *)
(* is to create the record that is missing.                                *)
(***************************************************************************)
C18_OnlySynchronizeMovesLastPush ==
  [][\A n \in Numbers :
       /\ (db[n].exists /\ db'[n] # db[n])
            => /\ db'[n].exists
               /\ \E h \in Handlers :
                    Synchronizing(ex[h]) /\ Answered(h, "onAddCommit", n)
       /\ (~db[n].exists /\ db'[n] # db[n])
            => /\ db'[n] = [exists |-> TRUE, last_push |-> now]
               /\ \E h \in Handlers :
                    /\ Reopening(ex[h]) \/ Commenting(ex[h])
                    /\ Answered(h, "onCreatePullRequest", n)]_vars

\* A comment event fails after time has moved on since the record's
\* last_push: the record it fetched is as it was, and it created none.
C18_Witness ==
  \E h \in Handlers :
    LET x == ex[h] IN
    /\ Finished(x) /\ Commenting(x) /\ x.failures # <<>>
    /\ db[PRNumber].exists /\ db[PRNumber].last_push < now
    /\ x.dbPR = db[PRNumber]
    /\ \E i \in 1..Len(x.trace) : x.trace[i].call = "getComments"
    /\ \A i \in 1..Len(x.trace) : x.trace[i].call # "onCreatePullRequest"

\* The report of the placeholder on commit sha.
Placeholder(c, sha) ==
  /\ c.call = "setCommitStatus" /\ c.sha = sha
  /\ c.state = "pending" /\ c.description = pendingPayload.description

\* A report of the outcome of counting: neither placeholder nor error.
Determination(c) ==
  /\ c.call = "setCommitStatus" /\ c.state # "error"
  /\ c.description # pendingPayload.description

(***************************************************************************)
(* C19.  The steps of one event's handling are ordered.  For an opened or  *)
(* reopened event the placeholder report on the head commit comes before   *)
(* every call of the record store and of the comment source.  For a        *)
(* comment event the lookup of the pull request comes first, then the      *)
(* placeholder report, then the record fetch.  The record's last_push is   *)
(* read before the comments are fetched, and the final determination is    *)
(* reported only after every membership oracle call has returned.          *)
(***************************************************************************)
C19_StepsInOrder ==
  \A h \in Handlers :
    LET x == ex[h]
        t == x.trace
    IN
    /\ (Reopening(x) /\ t # <<>>) => Placeholder(t[1], x.hookPayload.head)
    /\ (x.hookPayload.issue /\ t # <<>>)
         => /\ t[1].call = "getPullRequest"
            /\ (Len(t) >= 2 /\ t[1].ok) => Placeholder(t[2], x.pr.head)
            /\ \A i \in 1..Len(t) :
                 t[i].call \in {"onGet", "onCreatePullRequest", "getComments"}
                 => i >= 3 /\ t[2].ok
    /\ \A i \in 1..Len(t) :
         t[i].call = "getComments"
         => /\ \E j \in 1..(i - 1) : t[j].call = "onGet" /\ t[j].ok
            /\ x.dbPR.exists /\ t[i].since = x.dbPR.last_push
    /\ \A i \in 1..Len(t) :
         Determination(t[i])
         => /\ \A u \in Users : x.tasks[u] \in {"none", "yes", "no"}
            /\ \A j \in 1..Len(t) :
                 t[j].call \in {"isCollaborator", "isMemberOfOrg"} => j < i

\* A comment event handled in full: lookup, placeholder, record fetch,
\* comments, both kinds of oracle call, and then the determination.
C19_Witness ==
  \E h \in Handlers :
    LET x == ex[h]
        t == x.trace
    IN
    /\ Finished(x) /\ Commenting(x) /\ x.failures = <<>>
    /\ Len(t) >= 7
    /\ SubSeq(CallNames(x), 1, 4) =
         <<"getPullRequest", "setCommitStatus", "onGet", "getComments">>
    /\ \E i, j \in 5..(Len(t) - 1) :
         t[i].call = "isCollaborator" /\ t[j].call = "isMemberOfOrg"
    /\ Determination(Last(t)) /\ Last(t).state = "success"

\* The membership oracle calls of a handler, in the order of their issue.
OracleCalls(x) ==
  SelectSeq(x.trace, LAMBDA c : c.call \in {"isCollaborator", "isMemberOfOrg"})

(***************************************************************************)
(* C20.  The membership checks short-circuit.  countApprovals asks the     *)
(* oracle nothing when no comment survives the ignore, pattern and dedup   *)
(* filters; nothing about an author listed in from.users; nothing about    *)
(* the organisations of an author the oracle confirmed as collaborator;    *)
(* and nothing at all about ignored authors, about authors without a       *)
(* matching comment, or when from is unset.                                *)
(***************************************************************************)
C20_OracleShortCircuits ==
  \A h \in Handlers :
    LET x == ex[h]
        cfg == x.countConfig
        calls == OracleCalls(x)
    IN
    x.pc # "idle"
    => /\ (~cfg.pattern.ok \/ Filtered(x.comments, cfg) = <<>>) => calls = <<>>
       /\ ~cfg.from.set => calls = <<>>
       /\ \A i \in 1..Len(calls) :
            LET c == calls[i] IN
            /\ c.user \notin cfg.from.users
            /\ c.user \notin cfg.ignore
            /\ c.user \in MatchingAuthors(x.comments, cfg.pattern, {})
            /\ c.call = "isCollaborator" => cfg.from.collaborators
            /\ c.call = "isMemberOfOrg"
                 => /\ \E k \in 1..Len(cfg.from.orgs) : cfg.from.orgs[k] = c.org
                    /\ ~(cfg.from.collaborators /\ c.user \in collaborators)
            /\ \A j \in 1..Len(calls) : calls[j] = c => j = i

\* Two approvals for one oracle call: bob is listed in from.users, carol is
\* confirmed as collaborator and her organisations are not asked for.
C20_Witness ==
  \E h \in Handlers :
    LET x == ex[h]
        cfg == x.countConfig
    IN
    /\ x.pc = "counted" /\ x.approvals = 2
    /\ "bob" \in cfg.from.users /\ cfg.from.collaborators
    /\ cfg.from.orgs # <<>>
    /\ x.trace = <<OracleCall("isCollaborator", "", "carol")>>

=============================================================================
